---- MODULE Spec2Model ----
(***************************************************************************)
(* A model of flow, a small task orchestrator (ijwwsq/flow).               *)
(*                                                                         *)
(*   scheduler : TaskScheduler.detect_cycles / get_execution_order         *)
(*   executor  : TaskExecutor.save_state / load_state / execute_task /     *)
(*               execute_level                                             *)
(*   cli       : run (the coordinator loop over the levels)                *)
(*                                                                         *)
(* Line numbers refer to src/cli.py, the file that holds all the parts.    *)
(***************************************************************************)
EXTENDS Integers, Sequences, FiniteSets, TLC

VARIABLES
    tasks,             \* the parsed pipeline: a sequence of Task records
    retries,           \* --retries
    max_workers,       \* --max-workers
    resume,            \* --resume
    pc,                \* where the coordinator (run) is
    run_no,            \* how many runs of the program have begun
    execution_levels,  \* the plan of the current run
    level_index,       \* the level the loop of run is at
    blocked_tasks,     \* blocked_tasks of the current level
    runnable_tasks,    \* runnable_tasks of the current level
    tasks_to_run,      \* tasks_to_run of the current execute_level call
    total_failed,      \* total_failed of run
    exit_code,         \* the exit code of the last run that ended (-1: none yet)
    results,           \* TaskExecutor.results: task id -> TaskResult
    results_keys,      \* the keys of TaskExecutor.results in the order the dict holds them
    state_file,        \* the file flow_state.json
    now,               \* the clock of time.time(): it ticks between runs (and calls)
    wpc,               \* per task: where its execute_task call is
    wpath,             \* per task: which save_state call of execute_task is under way
    wsnap,             \* per task: the state dict its save_state call has built so far
    dirty,             \* per task: results grew while its save_state call iterated it
    spawned,           \* per task: child processes started in the current run
    has_cycle,         \* scheduler specification: what detect_cycles returned
    plan,              \* scheduler specification: what get_execution_order returned
    loaded,            \* state store specification: results of the loading executor
    load_ok,           \* state store specification: what load_state returned
    hash_seed,         \* plan order specification: the order in which a set of the
                       \* task ids iterates in the current process
    orders,            \* plan order specification: the level lists returned so far
    initial_results    \* results as the current run began with them (after load_state)

vars == <<tasks, retries, max_workers, resume, pc, run_no, execution_levels,
          level_index, blocked_tasks, runnable_tasks, tasks_to_run, total_failed,
          exit_code, results, results_keys, state_file, now, wpc, wpath, wsnap, dirty,
          spawned,
          has_cycle, plan, loaded, load_ok, hash_seed, orders, initial_results>>

\* ------------------------------------------------------------------------
\* Bounds of the model
\* ------------------------------------------------------------------------

\* longest depends_on list of a task in the scheduler specification
MaxDepLen == 2

\* largest --retries a run is started with
MaxRetries == 1

\* largest --max-workers a run is started with
MaxWorkers == 2

\* how many times the program is run, one run after the other
MaxRuns == 2

\* how many calls the executor specification makes, one after the other
MaxCalls == 2

\* largest attempts count of a result in the state store specification
MaxAttempts == 2

\* largest time stamp of a result in the state store specification
MaxTime == 2

\* ------------------------------------------------------------------------
\* Tasks (parser.py: Task)
\* ------------------------------------------------------------------------

\* the task ids of the pipeline file, in file order
TaskOrder == <<"a", "b", "c">>

TaskIds == {TaskOrder[i] : i \in DOMAIN TaskOrder}

\* Task(id, run, depends_on); the command string is not part of the model:
\* what a command does is drawn anew at each attempt.
Task(id, deps) == [id |-> id, depends_on |-> deps]

\* the ids of a task list
Ids(ts) == {ts[i].id : i \in DOMAIN ts}

\* task_map = {task.id: task for task in tasks}
task_map(ts) == [id \in Ids(ts) |-> ts[CHOOSE i \in DOMAIN ts : ts[i].id = id]]

\* the elements of a sequence
Range(s) == {s[i] : i \in DOMAIN s}

\* sequences over S of length at most n
SeqUpTo(S, n) == UNION {[1..k -> S] : k \in 0..n}

\* ------------------------------------------------------------------------
\* scheduler.py
\* ------------------------------------------------------------------------

\* for dep in task.depends_on: graph[dep].append(task.id); one entry per
\* occurrence of dep in the list.
RECURSIVE AppendDeps(_, _, _)
AppendDeps(graph, id, deps) ==
    IF deps = <<>> THEN graph
    ELSE AppendDeps([graph EXCEPT ![Head(deps)] = Append(@, id)], id, Tail(deps))

\* graph: task id -> the ids of the tasks that depend on it (a defaultdict:
\* an id nobody depends on maps to the empty list).
RECURSIVE BuildGraph(_, _, _)
BuildGraph(ts, i, graph) ==
    IF i > Len(ts) THEN graph
    ELSE BuildGraph(ts, i + 1, AppendDeps(graph, ts[i].id, ts[i].depends_on))

build_dependency_graph(ts) ==
    BuildGraph(ts, 1, [id \in Ids(ts) \cup UNION {Range(ts[i].depends_on) : i \in DOMAIN ts}
                          |-> <<>>])

\* in-degrees that count a dependency named twice only once
InDegree_distinct(ts) ==
    [id \in Ids(ts) |-> Cardinality(Range(task_map(ts)[id].depends_on))]

\* in_degree[task.id] = 0, then += 1 for every entry of depends_on
InDegree(ts) == [id \in Ids(ts) |-> Len(task_map(ts)[id].depends_on)]

\* for neighbor in graph[current]: in_degree[neighbor] -= 1
RECURSIVE DecNeighbors(_, _)
DecNeighbors(in_degree, neighbors) ==
    IF neighbors = <<>> THEN in_degree
    ELSE DecNeighbors([in_degree EXCEPT ![Head(neighbors)] = @ - 1], Tail(neighbors))

\* the inner loop of detect_cycles: decrement, and enqueue at zero
RECURSIVE Relax(_, _, _)
Relax(in_degree, queue, neighbors) ==
    IF neighbors = <<>> THEN [in_degree |-> in_degree, queue |-> queue]
    ELSE LET n == Head(neighbors)
             d == [in_degree EXCEPT ![n] = @ - 1]
         IN  Relax(d, IF d[n] = 0 THEN Append(queue, n) ELSE queue, Tail(neighbors))

\* while queue: current = queue.popleft(); processed += 1; ...
RECURSIVE KahnLoop(_, _, _, _)
KahnLoop(graph, in_degree, queue, processed) ==
    IF queue = <<>> THEN processed
    ELSE LET r == Relax(in_degree, Tail(queue), graph[Head(queue)])
         IN  KahnLoop(graph, r.in_degree, r.queue, processed + 1)

\* the ids of in_degree.items() with degree 0, in insertion (file) order
RECURSIVE ZeroQueue(_, _, _)
ZeroQueue(ts, i, in_degree) ==
    IF i > Len(ts) THEN <<>>
    ELSE (IF in_degree[ts[i].id] = 0 THEN <<ts[i].id>> ELSE <<>>)
         \o ZeroQueue(ts, i + 1, in_degree)

\* the number of tasks Kahn's algorithm processes
Processed(ts) ==
    KahnLoop(build_dependency_graph(ts), InDegree(ts), ZeroQueue(ts, 1, InDegree(ts)), 0)

\* detect_cycles with the comparison of its last line the wrong way round
detect_cycles_gt(ts) == Processed(ts) > Len(ts)

\* TaskScheduler.detect_cycles
detect_cycles(ts) == Processed(ts) # Len(ts)

\* for task_id in current_level: remaining_tasks.remove(task_id);
\*     for neighbor in graph[task_id]: in_degree[neighbor] -= 1
RECURSIVE RemoveLevel(_, _, _)
RemoveLevel(graph, in_degree, level) ==
    IF level = {} THEN in_degree
    ELSE LET t == CHOOSE x \in level : TRUE
         IN  RemoveLevel(graph, DecNeighbors(in_degree, graph[t]), level \ {t})

\* the level filter letting through a task that still waits for one dependency
CurrentLevel_le1(remaining, in_degree) == {t \in remaining : in_degree[t] <= 1}

\* the level filter that takes one task without open dependencies at a time
CurrentLevel_single(remaining, in_degree) ==
    LET zero == {t \in remaining : in_degree[t] = 0}
    IN  IF zero = {} THEN {} ELSE {CHOOSE t \in zero : TRUE}

\* current_level = [task_id for task_id in remaining_tasks if in_degree[task_id] == 0]
CurrentLevel(remaining, in_degree) == {t \in remaining : in_degree[t] = 0}

\* while remaining_tasks: ...  A level is the set of its ids: the list the
\* code builds has the iteration order of a Python set, which is not fixed.
RECURSIVE LevelLoop(_, _, _, _)
LevelLoop(graph, in_degree, remaining, levels) ==
    IF remaining = {} THEN [error |-> "none", levels |-> levels]
    ELSE LET current_level == CurrentLevel(remaining, in_degree)
         IN  IF current_level = {}
             THEN [error |-> "unresolvable dependencies", levels |-> <<>>]
             ELSE LevelLoop(graph, RemoveLevel(graph, in_degree, current_level),
                            remaining \ current_level, Append(levels, current_level))

\* a planner that checks nothing and puts every task into one level
get_execution_order_unchecked(ts) == [error |-> "none", levels |-> <<Ids(ts)>>]

\* a planner that checks nothing and returns the one level of all tasks twice
get_execution_order_repeated(ts) == [error |-> "none", levels |-> <<Ids(ts), Ids(ts)>>]

\* in_degree as the loop of detect_cycles leaves it
RECURSIVE KahnDegrees(_, _, _)
KahnDegrees(graph, in_degree, queue) ==
    IF queue = <<>> THEN in_degree
    ELSE LET r == Relax(in_degree, Tail(queue), graph[Head(queue)])
         IN  KahnDegrees(graph, r.in_degree, r.queue)

\* in_degree as the loop of get_execution_order leaves it, at its end or
\* where it raises
RECURSIVE LevelDegrees(_, _, _)
LevelDegrees(graph, in_degree, remaining) ==
    IF remaining = {} THEN in_degree
    ELSE LET current_level == CurrentLevel(remaining, in_degree)
         IN  IF current_level = {} THEN in_degree
             ELSE LevelDegrees(graph, RemoveLevel(graph, in_degree, current_level),
                               remaining \ current_level)

\* the in-degrees after detect_cycles, and after get_execution_order: the
\* counts only go down, so these are the lowest values they take
FinalDegrees(ts) ==
    [detect |-> KahnDegrees(build_dependency_graph(ts), InDegree(ts),
                            ZeroQueue(ts, 1, InDegree(ts))),
     order |-> LevelDegrees(build_dependency_graph(ts), InDegree(ts), Ids(ts))]

\* TaskScheduler.get_execution_order: the levels, or the ValueError raised
get_execution_order(ts) ==
    IF detect_cycles(ts)
    THEN [error |-> "cyclic dependencies", levels |-> <<>>]
    ELSE LevelLoop(build_dependency_graph(ts), InDegree(ts), Ids(ts), <<>>)

\* ------------------------------------------------------------------------
\* executor.py: TaskStatus, TaskResult, the state store
\* ------------------------------------------------------------------------

\* the members of the enum TaskStatus
PENDING == "PENDING"
RUNNING == "RUNNING"
SUCCESS == "SUCCESS"
FAILED == "FAILED"
RETRYING == "RETRYING"

Members == {PENDING, RUNNING, SUCCESS, FAILED, RETRYING}

\* member.value: the string the member is declared with
StatusValue(member) ==
    CASE member = PENDING -> "pending"
      [] member = RUNNING -> "running"
      [] member = SUCCESS -> "done"
      [] member = FAILED -> "failed"
      [] member = RETRYING -> "retrying"

\* TaskStatus(value): the members with that value (none: ValueError)
MembersWithValue(value) == {m \in Members : StatusValue(m) = value}

\* None, and a number, as the value of start_time and end_time
None == <<>>

Time(t) == <<t>>

\* time.time() as the attempt with number k of a task reads it in a run whose
\* clock stands at n.  Two attempts read the clock at two moments and get two
\* floats, whose texts in the file need not be equally long; one reading put
\* into two snapshots is the same float in both.
Reading(n, k) == <<n, k>>

\* TaskResult(task_id); the captured output text is not part of the model
TaskResult(task_id) ==
    [task_id |-> task_id, status |-> PENDING, start_time |-> None,
     end_time |-> None, attempts |-> 0, error |-> ""]

\* the dict with no key
EmptyDict == <<>>

\* the value of a result variable before the call: <<>>, and <<v>> after it
NotYet == <<>>

\* the state file when there is none
NoFile == [kind |-> "absent", state |-> EmptyDict, keys |-> <<>>]

\* a state file that json.load does not make a dict of
MalformedFile == [kind |-> "malformed", state |-> EmptyDict, keys |-> <<>>]

\* the state file as open(self.state_file, 'w') leaves it: no content
TruncatedFile == [kind |-> "empty", state |-> EmptyDict, keys |-> <<>>]

\* save_state writing the member's name where the code writes its value
StateEntry_name(result) ==
    [status |-> result.status, attempts |-> result.attempts,
     start_time |-> result.start_time, end_time |-> result.end_time]

\* the dict save_state builds for one result
StateEntry(result) ==
    [status |-> StatusValue(result.status), attempts |-> result.attempts,
     start_time |-> result.start_time, end_time |-> result.end_time]

\* save_state, first half: the dict state built from self.results
BuildState(res) == [id \in DOMAIN res |-> StateEntry(res[id])]

\* save_state, second half: json.dump(state, f) into the state file.  The
\* text holds the entries in the order of the keys of the dict state, and
\* json.load gives a dict with the keys in the order of the text.
WriteState(state, keys) == [kind |-> "json", state |-> state, keys |-> keys]

\* the orders in which a dict can hold the keys S
KeyOrders(S) == {s \in [1..Cardinality(S) -> S] : Range(s) = S}

\* the keys of an entry, in the order in which save_state reads the fields
EntryFields == <<"status", "attempts", "start_time", "end_time">>

\* the number of characters of a status value in the file
StatusLen(value) ==
    CASE value = "done" -> 4
      [] value = "failed" -> 6
      [] value = "pending" -> 7
      [] value = "running" -> 7
      [] value = "retrying" -> 8
      [] OTHER -> 7

\* the characters the status values of the entries add to the text of a state
RECURSIVE StatusChars(_, _)
StatusChars(state, keys) ==
    IF keys = <<>> THEN 0
    ELSE StatusLen(state[Head(keys)].status) + StatusChars(state, Tail(keys))

\* two states with the same ids and, id by id, the same numbers (the same
\* attempts, and the same readings of the clock or null): their texts differ
\* in the status values only
SameNumbers(s1, s2) ==
    /\ DOMAIN s1 = DOMAIN s2
    /\ \A id \in DOMAIN s1 :
          /\ s1[id].attempts = s2[id].attempts
          /\ s1[id].start_time = s2[id].start_time
          /\ s1[id].end_time = s2[id].end_time

\* The text of json.dump goes to the file when the with block closes it, at
\* offset 0 and without cutting what lies beyond its end.  On a file that was
\* truncated and not written since, the file holds that text.  On a file
\* another thread has written since this thread opened it, the file holds the
\* text only if it is not shorter than the text it lands on; the tail of a
\* longer text stays and the file is no JSON.  A text with more entries is
\* longer, one with fewer is shorter (an entry is 100 characters or more,
\* which the numbers and status values of two other entries do not make up
\* for); with the same ids and numbers the status values decide; with other
\* numbers, such as the start_time readings of two attempts, the lengths of
\* the texts of the floats decide, which the model leaves open.
Overwrite(file, state, keys) ==
    IF file.kind = "empty" THEN {WriteState(state, keys)}
    ELSE IF file.kind # "json" THEN {WriteState(state, keys), MalformedFile}
    ELSE IF SameNumbers(file.state, state)
         THEN IF StatusChars(state, keys) >= StatusChars(file.state, file.keys)
              THEN {WriteState(state, keys)} ELSE {MalformedFile}
    ELSE IF DOMAIN file.state \subseteq DOMAIN state /\ DOMAIN file.state # DOMAIN state
         THEN {WriteState(state, keys)}
    ELSE IF DOMAIN state \subseteq DOMAIN file.state /\ DOMAIN file.state # DOMAIN state
         THEN {MalformedFile}
    ELSE {WriteState(state, keys), MalformedFile}

\* task_state has the four keys load_state reads, and a status TaskStatus knows
EntryLoads(task_state) ==
    /\ {"status", "attempts", "start_time", "end_time"} \subseteq DOMAIN task_state
    /\ MembersWithValue(task_state.status) # {}

\* the TaskResult load_state makes of one entry of the file
LoadedResult(task_id, task_state) ==
    [task_id |-> task_id,
     status |-> CHOOSE m \in MembersWithValue(task_state.status) : TRUE,
     start_time |-> task_state.start_time, end_time |-> task_state.end_time,
     attempts |-> task_state.attempts, error |-> ""]

\* d[key] = value
DictSet(d, key, value) == [k \in DOMAIN d \cup {key} |-> IF k = key THEN value ELSE d[k]]

\* the keys of a dict after d[key] = value: a new key comes last
KeysSet(keys, key) == IF key \in Range(keys) THEN keys ELSE Append(keys, key)

\* for task_id, task_state in state.items(): ...; the entries are taken in
\* the order of the file; an entry that raises ends the loop, and the
\* entries before it stay in self.results.
RECURSIVE LoadEntries(_, _, _, _)
LoadEntries(state, keys, res, res_keys) ==
    IF keys = <<>> THEN [ok |-> TRUE, results |-> res, keys |-> res_keys]
    ELSE IF ~EntryLoads(state[Head(keys)])
         THEN [ok |-> FALSE, results |-> res, keys |-> res_keys]
    ELSE LoadEntries(state, Tail(keys),
                     DictSet(res, Head(keys), LoadedResult(Head(keys), state[Head(keys)])),
                     KeysSet(res_keys, Head(keys)))

\* TaskExecutor.load_state: what it returns, self.results after it, and the
\* order of its keys
load_state(file, res, res_keys) ==
    IF file.kind # "json" THEN [ok |-> FALSE, results |-> res, keys |-> res_keys]
    ELSE LoadEntries(file.state, file.keys, res, res_keys)

\* ------------------------------------------------------------------------
\* executor.py: execute_task, one call per task of tasks_to_run, each call a
\* thread of the pool.  wpc[t] is where the call for task t is:
\*   "none"      not submitted (yet, if t is in tasks_to_run)
\*   "queued"    submitted, no thread yet
\*   "loop"      at the while test      "counted"  attempts incremented
\*   "marked"    status set for the attempt
\*   "launch"    start_time set, before subprocess.Popen
\*   "child"     the command is running
\*   "failing"   status set to failed, end_time not yet
\*   "save"      save_state called, the iteration not begun
\*   "snap"      in save_state, iterating self.results
\*   "write"     in save_state, state built, file not opened yet
\*   "dump"      in save_state, file opened, the text not in the file yet
\*   "returned"  the call has returned  "raised"   the call has raised
\*   "reading"   in the loop over process.stdout of a command that neither
\*               exits nor closes its output (child process specification)
\*   "held"      in the loop over process.stdout of a command that has exited
\*               and left its output open to a process that goes on (held
\*               output specification)
\* ------------------------------------------------------------------------

\* how an attempt that does not exit with code 0 ends: with another exit code
\* (CalledProcessError), by the timeout (TimeoutExpired) or by a fault of the
\* launch (Exception); the text is what result.error is set to.  Each task
\* fails in one of the three ways.
FailureOf(t) ==
    CASE t = "b" -> "exit 1"
      [] t = "a" -> "timeout"
      [] OTHER -> "fault"

\* how an attempt of task t can end
Outcomes(t) == {"exit 0", FailureOf(t)}

\* the message of the RuntimeError a dict raises when it grew under iteration
DictChanged == "dictionary changed size during iteration"

\* where a call is while it has a thread and goes on
InCall ==
    {"loop", "counted", "marked", "launch", "child", "failing", "save", "snap",
     "write", "dump"}

\* the calls that hold a thread of the pool
Active ==
    {t \in tasks_to_run : wpc[t] \in InCall \cup {"reading", "held"}}

\* a pool of the threads that max_workers leaves over: none when every task
\* of tasks_to_run could have its own
PoolSize_spare == max_workers - Cardinality(tasks_to_run)

\* a pool with a thread for every task of tasks_to_run
PoolSize_all == Cardinality(tasks_to_run)

\* ThreadPoolExecutor(max_workers=min(self.max_workers, len(tasks_to_run)))
PoolSize == IF max_workers < Cardinality(tasks_to_run)
            THEN max_workers ELSE Cardinality(tasks_to_run)

\* the early return of execute_task left out
AlreadyDone_never(result) == FALSE

\* if result.status == TaskStatus.SUCCESS: return result
AlreadyDone(result) == result.status = SUCCESS

\* the retry loop running one attempt too many
MoreAttempts_le(result) == result.attempts <= retries + 1

\* the retry loop that gives up after the first attempt
MoreAttempts_once(result) == result.attempts < 1

\* while result.attempts < max_attempts
MoreAttempts(result) == result.attempts < retries + 1

workerVars == <<results, results_keys, state_file, wpc, wpath, wsnap, dirty, spawned>>

coordVars == <<tasks, retries, max_workers, resume, pc, run_no, execution_levels,
               level_index, blocked_tasks, runnable_tasks, tasks_to_run,
               total_failed, exit_code, now, initial_results>>

otherVars == <<has_cycle, plan, loaded, load_ok, hash_seed, orders>>

\* a thread of the pool takes the call: the entry is made if there is none,
\* and a task already done is returned at once.
TaskBegin(t) ==
    /\ pc \in {"wait", "api"}
    /\ t \in tasks_to_run /\ wpc[t] = "queued"
    /\ Cardinality(Active) < PoolSize
    /\ LET inserted == t \notin DOMAIN results
           res == IF inserted THEN DictSet(results, t, TaskResult(t)) ELSE results
       IN  /\ results' = res
           /\ results_keys' = KeysSet(results_keys, t)
           /\ dirty' = [u \in DOMAIN dirty |->
                           dirty[u] \/ (inserted /\ wpc[u] = "snap")]
           /\ wpc' = [wpc EXCEPT ![t] = IF AlreadyDone(res[t]) THEN "returned"
                                                                ELSE "loop"]
    /\ UNCHANGED <<state_file, wpath, wsnap, spawned, coordVars, otherVars>>

\* the while test, and result.attempts += 1
AttemptBegin(t) ==
    /\ pc \in {"wait", "api"}
    /\ t \in tasks_to_run /\ wpc[t] = "loop"
    /\ MoreAttempts(results[t])
    /\ results' = [results EXCEPT ![t].attempts = @ + 1]
    /\ wpc' = [wpc EXCEPT ![t] = "counted"]
    /\ UNCHANGED <<results_keys, state_file, wpath, wsnap, dirty, spawned,
                   coordVars, otherVars>>

\* result.status = RETRYING if result.attempts > 1 else RUNNING
AttemptStatus(t) ==
    /\ pc \in {"wait", "api"}
    /\ t \in tasks_to_run /\ wpc[t] = "counted"
    /\ results' = [results EXCEPT
                      ![t].status = IF results[t].attempts > 1 THEN RETRYING
                                                               ELSE RUNNING]
    /\ wpc' = [wpc EXCEPT ![t] = "marked"]
    /\ UNCHANGED <<results_keys, state_file, wpath, wsnap, dirty, spawned,
                   coordVars, otherVars>>

\* result.start_time = time.time(): the reading of this attempt
AttemptStart(t) ==
    /\ pc \in {"wait", "api"}
    /\ t \in tasks_to_run /\ wpc[t] = "marked"
    /\ results' = [results EXCEPT ![t].start_time = Reading(now, results[t].attempts)]
    /\ wpc' = [wpc EXCEPT ![t] = "launch"]
    /\ UNCHANGED <<results_keys, state_file, wpath, wsnap, dirty, spawned,
                   coordVars, otherVars>>

\* the tasks whose command subprocess.Popen can refuse (a run value that is
\* no command): the tasks that fail by a fault
CanRefuse(t) == FailureOf(t) = "fault"

\* subprocess.Popen(task.run, ...): the child process is started, or Popen
\* raises, no child is started, and the except clause records the error
AttemptLaunch(t, started) ==
    /\ pc \in {"wait", "api"}
    /\ t \in tasks_to_run /\ wpc[t] = "launch"
    /\ IF started
       THEN /\ spawned' = [spawned EXCEPT ![t] = @ + 1]
            /\ wpc' = [wpc EXCEPT ![t] = "child"]
            /\ UNCHANGED results
       ELSE /\ CanRefuse(t)
            /\ results' = [results EXCEPT ![t].error = FailureOf(t)]
            /\ wpc' = [wpc EXCEPT ![t] = "loop"]
            /\ UNCHANGED spawned
    /\ UNCHANGED <<results_keys, state_file, wpath, wsnap, dirty, coordVars, otherVars>>

\* the attempt ends: exit code zero makes the task done and calls save_state
\* inside the try block; anything else records the error and loops.  The
\* writes of result.error and result.output are one step with what follows
\* them: no other thread reads these fields.
AttemptEnd(t, outcome) ==
    /\ pc \in {"wait", "api"}
    /\ t \in tasks_to_run /\ wpc[t] = "child"
    /\ IF outcome = "exit 0"
       THEN /\ results' = [results EXCEPT ![t].error = "", ![t].status = SUCCESS]
            /\ wpc' = [wpc EXCEPT ![t] = "save"]
            /\ wpath' = [wpath EXCEPT ![t] = "try"]
       ELSE /\ results' = [results EXCEPT ![t].error = outcome]
            /\ wpc' = [wpc EXCEPT ![t] = "loop"]
            /\ UNCHANGED wpath
    /\ UNCHANGED <<results_keys, state_file, wsnap, dirty, spawned, coordVars, otherVars>>

\* the loop is left with the attempts used up: result.status = FAILED
Exhausted(t) ==
    /\ pc \in {"wait", "api"}
    /\ t \in tasks_to_run /\ wpc[t] = "loop"
    /\ ~MoreAttempts(results[t])
    /\ results' = [results EXCEPT ![t].status = FAILED]
    /\ wpc' = [wpc EXCEPT ![t] = "failing"]
    /\ UNCHANGED <<results_keys, state_file, wpath, wsnap, dirty, spawned,
                   coordVars, otherVars>>

\* result.end_time = time.time(), and the call of save_state after the loop
ExhaustedEnd(t) ==
    /\ pc \in {"wait", "api"}
    /\ t \in tasks_to_run /\ wpc[t] = "failing"
    /\ results' = [results EXCEPT ![t].end_time = Time(now)]
    /\ wpc' = [wpc EXCEPT ![t] = "save"]
    /\ wpath' = [wpath EXCEPT ![t] = "final"]
    /\ UNCHANGED <<results_keys, state_file, wsnap, dirty, spawned, coordVars, otherVars>>

\* save_state: state = {}, and self.results.items() begins the iteration
SaveBegin(t) ==
    /\ pc \in {"wait", "api"}
    /\ t \in tasks_to_run /\ wpc[t] = "save"
    /\ wsnap' = [wsnap EXCEPT ![t] = EmptyDict]
    /\ dirty' = [dirty EXCEPT ![t] = FALSE]
    /\ wpc' = [wpc EXCEPT ![t] = "snap"]
    /\ UNCHANGED <<results, results_keys, state_file, wpath, spawned,
                   coordVars, otherVars>>

\* the entry of the dict under construction that has all its fields
EntryComplete(state, key) ==
    key \in DOMAIN state /\ Cardinality(DOMAIN state[key]) = Len(EntryFields)

\* the keys the iteration of t has yet to finish, the one whose entry is
\* under construction first
SnapPending(t) ==
    SelectSeq(results_keys, LAMBDA key : ~EntryComplete(wsnap[t], key))

\* the iteration of t stands between two entries (or before the first, or
\* after the last), where the next item is asked of the iterator
SnapBetween(t) ==
    SnapPending(t) = <<>> \/ Head(SnapPending(t)) \notin DOMAIN wsnap[t]

\* save_state reads one field of one result: the next of 'status',
\* 'attempts', 'start_time', 'end_time' of the entry under construction.
\* The first read of an entry follows the step of the iterator; wsnap[t]
\* holds the entry under construction with the fields read so far.
SaveRead(t) ==
    /\ pc \in {"wait", "api"}
    /\ t \in tasks_to_run /\ wpc[t] = "snap"
    /\ SnapPending(t) # <<>>
    /\ SnapBetween(t) => ~dirty[t]
    /\ LET key == Head(SnapPending(t))
           entry == IF key \in DOMAIN wsnap[t] THEN wsnap[t][key] ELSE EmptyDict
           field == EntryFields[Cardinality(DOMAIN entry) + 1]
           value == StateEntry(results[key])[field]
       IN  wsnap' = [wsnap EXCEPT ![t] = DictSet(@, key, DictSet(entry, field, value))]
    /\ UNCHANGED <<results, results_keys, state_file, wpc, wpath, dirty, spawned,
                   coordVars, otherVars>>

\* the iteration ends: save_state holds the dict state
SaveSnapshot(t) ==
    /\ pc \in {"wait", "api"}
    /\ t \in tasks_to_run /\ wpc[t] = "snap"
    /\ SnapPending(t) = <<>> /\ ~dirty[t]
    /\ wpc' = [wpc EXCEPT ![t] = "write"]
    /\ UNCHANGED <<results, results_keys, state_file, wpath, wsnap, dirty, spawned,
                   coordVars, otherVars>>

\* another thread has put a new key into self.results since the iteration
\* began: the next step of the iterator raises RuntimeError.  Inside the try
\* block the except clause takes it and the loop goes on; after the loop it
\* leaves execute_task.
SaveRaise(t) ==
    /\ pc \in {"wait", "api"}
    /\ t \in tasks_to_run /\ wpc[t] = "snap"
    /\ dirty[t] /\ SnapBetween(t)
    /\ IF wpath[t] = "try"
       THEN /\ results' = [results EXCEPT ![t].error = DictChanged]
            /\ wpc' = [wpc EXCEPT ![t] = "loop"]
       ELSE /\ wpc' = [wpc EXCEPT ![t] = "raised"]
            /\ UNCHANGED results
    /\ dirty' = [dirty EXCEPT ![t] = FALSE]
    /\ wsnap' = [wsnap EXCEPT ![t] = EmptyDict]
    /\ UNCHANGED <<results_keys, state_file, wpath, spawned, coordVars, otherVars>>

\* save_state opens the file for writing, which truncates it
SaveOpen(t) ==
    /\ pc \in {"wait", "api"}
    /\ t \in tasks_to_run /\ wpc[t] = "write"
    /\ state_file' = TruncatedFile
    /\ wpc' = [wpc EXCEPT ![t] = "dump"]
    /\ UNCHANGED <<results, results_keys, wpath, wsnap, dirty, spawned,
                   coordVars, otherVars>>

\* the keys of the dict state of t: those of self.results when t went through it
SnapKeys(t) == SelectSeq(results_keys, LAMBDA key : key \in DOMAIN wsnap[t])

\* save_state leaves the with block: the text of the dict it holds goes to
\* the file; execute_task returns
SaveWrite(t) ==
    /\ pc \in {"wait", "api"}
    /\ t \in tasks_to_run /\ wpc[t] = "dump"
    /\ state_file' \in Overwrite(state_file, wsnap[t], SnapKeys(t))
    /\ wsnap' = [wsnap EXCEPT ![t] = EmptyDict]
    /\ wpc' = [wpc EXCEPT ![t] = "returned"]
    /\ UNCHANGED <<results, results_keys, wpath, dirty, spawned, coordVars, otherVars>>

\* a step of the execute_task call of task t
TaskStep(t) ==
    \/ TaskBegin(t)
    \/ AttemptBegin(t)
    \/ AttemptStatus(t)
    \/ AttemptStart(t)
    \/ \E started \in BOOLEAN : AttemptLaunch(t, started)
    \/ \E outcome \in Outcomes(t) : AttemptEnd(t, outcome)
    \/ Exhausted(t)
    \/ ExhaustedEnd(t)
    \/ SaveBegin(t)
    \/ SaveRead(t)
    \/ SaveSnapshot(t)
    \/ SaveRaise(t)
    \/ SaveOpen(t)
    \/ SaveWrite(t)

\* a step of a thread of the pool
Worker == \E t \in TaskIds : TaskStep(t)

\* ------------------------------------------------------------------------
\* cli.py: run, and executor.py: execute_level.  pc is where run is:
\*   "idle"    the program has not been run yet
\*   "levels"  at the head of the loop over execution_levels
\*   "wait"    in execute_level, waiting for the pool
\*   "exited"  the run has ended with exit_code
\* ------------------------------------------------------------------------

\* the pipelines the program is run on: the scenario pipeline (a and b first,
\* c after both), a chain, and a pipeline with a cycle
RunPipelines ==
    {<<Task("a", <<>>), Task("b", <<>>), Task("c", <<"a", "b">>)>>,
     <<Task("a", <<>>), Task("b", <<"a">>), Task("c", <<"b">>)>>,
     <<Task("a", <<"c">>), Task("b", <<>>), Task("c", <<"a">>)>>}

\* the dependency check that passes every dependency that has a result
Satisfied_any(res, dep) == dep \in DOMAIN res

\* the dependency check that takes a failed dependency for a finished one
Satisfied_failed(res, dep) ==
    dep \in DOMAIN res /\ res[dep].status \in {SUCCESS, FAILED}

\* dep_result = executor.results.get(dep); not (not dep_result or
\* dep_result.status != TaskStatus.SUCCESS)
Satisfied(res, dep) == dep \in DOMAIN res /\ res[dep].status = SUCCESS

\* blocked_tasks of a level
Blocked(ts, level, res) ==
    {t \in level : \E dep \in Range(task_map(ts)[t].depends_on) : ~Satisfied(res, dep)}

\* task.id not in self.results or self.results[task.id].status != TaskStatus.SUCCESS
NeedsRun(res, t) == t \notin DOMAIN res \/ res[t].status # SUCCESS

\* a count of the failures of a level that leaves out the tasks that failed
\* at their first attempt
CountFailed_retried(res, level) ==
    Cardinality({t \in level : res[t].status = FAILED /\ res[t].attempts > 1})

\* level_failed = sum(1 for r in level_results if r.status == TaskStatus.FAILED)
CountFailed(res, level) == Cardinality({t \in level : res[t].status = FAILED})

\* the state file after a run that removes it at every end
AfterRun_always(file, failed) == NoFile

\* the state file after the last level: unlinked if nothing failed
AfterRun(file, failed) == IF failed > 0 THEN file ELSE NoFile

\* sys.exit with total_failed counted the wrong way round
ExitCode_inverted(failed) == IF failed > 0 THEN 0 ELSE 1

\* the exit code after the last level
ExitCode(failed) == IF failed > 0 THEN 1 ELSE 0

runOther == <<tasks, has_cycle, plan, loaded, hash_seed, orders>>

\* run up to the loop over the levels: the options, the plan, the executor,
\* load_state under --resume.  A plan that raises ends the run with code 1.
\* The program is run again only to resume a run that ended with code 1, and
\* the runs in a row that are followed are those made without retries; a run
\* without --resume over a file left behind, and a resumed run with retries,
\* are runs of SpecResume.
RunBegin(res) ==
    /\ pc \in {"idle", "exited"}
    /\ run_no < MaxRuns
    /\ pc = "exited" => res /\ exit_code = 1 /\ retries = 0
    /\ run_no' = run_no + 1
    /\ resume' = res
    /\ now' = now + 1
    /\ LET order == get_execution_order(tasks)
           load == load_state(state_file, EmptyDict, <<>>)
           start == IF res THEN load.results ELSE EmptyDict
           start_keys == IF res THEN load.keys ELSE <<>>
       IN  IF order.error # "none"
           THEN /\ pc' = "exited" /\ exit_code' = 1
                /\ execution_levels' = <<>> /\ level_index' = 0
                /\ results' = EmptyDict /\ initial_results' = EmptyDict
                /\ results_keys' = <<>>
                /\ load_ok' = NotYet
           ELSE /\ pc' = "levels" /\ exit_code' = -1
                /\ execution_levels' = order.levels /\ level_index' = 1
                /\ results' = start /\ initial_results' = start
                /\ results_keys' = start_keys
                /\ load_ok' = IF res THEN <<load.ok>> ELSE NotYet
    /\ total_failed' = 0
    /\ blocked_tasks' = {} /\ runnable_tasks' = {} /\ tasks_to_run' = {}
    /\ wpc' = [t \in TaskIds |-> "none"]
    /\ wpath' = [t \in TaskIds |-> "none"]
    /\ wsnap' = [t \in TaskIds |-> EmptyDict]
    /\ dirty' = [t \in TaskIds |-> FALSE]
    /\ spawned' = [t \in TaskIds |-> 0]
    /\ UNCHANGED <<retries, max_workers, state_file, runOther>>

\* one pass of the loop body up to the pool: the blocked and the runnable
\* tasks of the level; a level with no runnable task is skipped; execute_level
\* returns the stored results if no runnable task needs a run, and makes the
\* pool for the others otherwise: none of them is submitted yet.
LevelBegin ==
    /\ pc = "levels"
    /\ level_index <= Len(execution_levels)
    /\ LET level == execution_levels[level_index]
           blocked == Blocked(tasks, level, results)
           runnable == level \ blocked
           to_run == {t \in runnable : NeedsRun(results, t)}
       IN  /\ blocked_tasks' = blocked
           /\ runnable_tasks' = runnable
           /\ tasks_to_run' = to_run
           /\ IF to_run = {}
              THEN /\ pc' = "levels"
                   /\ level_index' = level_index + 1
                   /\ total_failed' = total_failed + CountFailed(results, runnable)
                   /\ UNCHANGED wpc
              ELSE /\ pc' = "wait"
                   /\ wpc' = [t \in TaskIds |-> IF t \in to_run THEN "none" ELSE wpc[t]]
                   /\ UNCHANGED <<level_index, total_failed>>
    /\ UNCHANGED <<retries, max_workers, resume, run_no, execution_levels, exit_code,
                   now, results, results_keys, state_file, wpath, wsnap, dirty, spawned,
                   initial_results, load_ok, runOther>>

\* executor.submit(self.execute_task, task), one turn of the comprehension
\* over tasks_to_run: the call of t gets its future.  The calls submitted
\* before it go on meanwhile; tasks_to_run has the order of the level, which
\* is any order of its tasks.
Submit(t) ==
    /\ pc \in {"wait", "api"}
    /\ t \in tasks_to_run /\ wpc[t] = "none"
    /\ wpc' = [wpc EXCEPT ![t] = "queued"]
    /\ UNCHANGED <<results, results_keys, state_file, wpath, wsnap, dirty, spawned,
                   coordVars, otherVars>>

\* execute_level passing on the error of a call without waiting for the calls
\* still under way
PoolJoined_error ==
    \/ \A t \in tasks_to_run : wpc[t] \in {"returned", "raised"}
    \/ /\ \E t \in tasks_to_run : wpc[t] = "raised"
       /\ \A t \in tasks_to_run : wpc[t] \notin {"none", "queued"}

\* execute_level returning as soon as every call has a thread, as a pool
\* shut down without waiting would
PoolJoined_nowait == \A t \in tasks_to_run : wpc[t] \notin {"none", "queued"}

\* the with block of the pool is left when every call of tasks_to_run has
\* been submitted and is over
PoolJoined == \A t \in tasks_to_run : wpc[t] \in {"returned", "raised"}

\* the with block of execute_level is left: every call has returned or raised.
\* A call that raised ends the run with code 1; otherwise the failed results
\* of the level are counted.
LevelEnd ==
    /\ pc = "wait"
    /\ PoolJoined
    /\ IF \E t \in tasks_to_run : wpc[t] = "raised"
       THEN /\ pc' = "exited" /\ exit_code' = 1
            /\ UNCHANGED <<level_index, total_failed>>
       ELSE /\ pc' = "levels"
            /\ level_index' = level_index + 1
            /\ total_failed' = total_failed + CountFailed(results, runnable_tasks)
            /\ UNCHANGED exit_code
    /\ UNCHANGED <<retries, max_workers, resume, run_no, execution_levels,
                   blocked_tasks, runnable_tasks, tasks_to_run, now, workerVars,
                   initial_results, load_ok, runOther>>

\* after the last level: exit 1 if a task failed, else the state file is
\* removed and the run ends with code 0.
RunEnd ==
    /\ pc = "levels"
    /\ level_index > Len(execution_levels)
    /\ pc' = "exited"
    /\ exit_code' = ExitCode(total_failed)
    /\ state_file' = AfterRun(state_file, total_failed)
    /\ UNCHANGED <<retries, max_workers, resume, run_no, execution_levels, level_index,
                   blocked_tasks, runnable_tasks, tasks_to_run, total_failed, now,
                   results, results_keys, wpc, wpath, wsnap, dirty, spawned,
                   initial_results,
                   load_ok, runOther>>

Init ==
    /\ tasks \in RunPipelines
    /\ pc = "idle" /\ run_no = 0
    /\ retries \in {0, MaxRetries} /\ max_workers \in {1, MaxWorkers} /\ resume = FALSE
    /\ execution_levels = <<>> /\ level_index = 0
    /\ blocked_tasks = {} /\ runnable_tasks = {} /\ tasks_to_run = {}
    /\ total_failed = 0 /\ exit_code = -1
    /\ results = EmptyDict /\ results_keys = <<>> /\ initial_results = EmptyDict
    /\ state_file = NoFile /\ now = 0
    /\ wpc = [t \in TaskIds |-> "none"]
    /\ wpath = [t \in TaskIds |-> "none"]
    /\ wsnap = [t \in TaskIds |-> EmptyDict]
    /\ dirty = [t \in TaskIds |-> FALSE]
    /\ spawned = [t \in TaskIds |-> 0]
    /\ has_cycle = NotYet /\ plan = NotYet /\ loaded = EmptyDict /\ load_ok = NotYet
    /\ hash_seed = TaskOrder /\ orders = <<>>

Next ==
    \/ \E res \in BOOLEAN : RunBegin(res)
    \/ LevelBegin
    \/ \E t \in TaskIds : Submit(t)
    \/ LevelEnd
    \/ RunEnd
    \/ Worker

Spec == Init /\ [][Next]_vars

\* ------------------------------------------------------------------------
\* Resume specification: one run of the program in a directory where earlier
\* runs, a crash or an editor left any state file (or none).
\* ------------------------------------------------------------------------

\* a result with the given status, attempts and times
ResultWith(id, status, attempts, start_time, end_time) ==
    [task_id |-> id, status |-> status, start_time |-> start_time,
     end_time |-> end_time, attempts |-> attempts, error |-> ""]

\* the results a task can have when a call begins: never run, interrupted in
\* its first attempt or in a retry, done, failed
ExecResults(id) ==
    {ResultWith(id, PENDING, 0, None, None),
     ResultWith(id, RUNNING, 1, Time(1), None),
     ResultWith(id, RETRYING, 2, Time(1), None),
     ResultWith(id, SUCCESS, 1, Time(1), None),
     ResultWith(id, FAILED, 1, Time(1), Time(1))}

\* an entry with a status value that TaskStatus does not have (ValueError)
UnknownStatusEntry ==
    [status |-> "unknown", attempts |-> 1, start_time |-> None, end_time |-> None]

\* an entry without the key attempts (KeyError)
MissingFieldEntry == [status |-> "done", start_time |-> None, end_time |-> None]

\* the entries of a state file: what save_state writes for a result
EntryDone(id) == StateEntry(ResultWith(id, SUCCESS, 1, Time(1), None))
EntryFailed(id) == StateEntry(ResultWith(id, FAILED, 1, Time(1), Time(1)))
EntryRunning(id) == StateEntry(ResultWith(id, RUNNING, 1, Time(1), None))

\* the dict with the keys a and b
DictAB(entry_a, entry_b) == [id \in {"a", "b"} |-> IF id = "a" THEN entry_a ELSE entry_b]

\* the state files of the resume specification: none; one that is no JSON;
\* a failed and b done, as a failed run leaves them; a alone, as a run killed
\* in the first attempt of a leaves it; a and b done; and files with an
\* entry that load_state raises on, after b, before b, and alone
ResumeFiles ==
    {NoFile, MalformedFile,
     WriteState(DictAB(EntryFailed("a"), EntryDone("b")), <<"a", "b">>),
     WriteState([id \in {"a"} |-> EntryRunning(id)], <<"a">>),
     WriteState(DictAB(EntryDone("a"), EntryDone("b")), <<"b", "a">>),
     WriteState(DictAB(UnknownStatusEntry, EntryDone("b")), <<"b", "a">>),
     WriteState(DictAB(MissingFieldEntry, EntryDone("b")), <<"a", "b">>),
     WriteState([id \in {"a"} |-> UnknownStatusEntry], <<"a">>)}

\* the pipelines of the resume specification: the scenario pipeline, a chain,
\* and a pipeline with a cycle
ResumePipelines ==
    {<<Task("a", <<>>), Task("b", <<>>), Task("c", <<"a", "b">>)>>,
     <<Task("a", <<>>), Task("b", <<"a">>), Task("c", <<"b">>)>>,
     <<Task("a", <<"c">>), Task("b", <<>>), Task("c", <<"a">>)>>}

ResumeInit ==
    /\ tasks \in ResumePipelines
    /\ state_file \in ResumeFiles
    /\ pc = "idle" /\ run_no = MaxRuns - 1
    /\ retries \in {0, MaxRetries} /\ max_workers \in {1, MaxWorkers} /\ resume = FALSE
    /\ execution_levels = <<>> /\ level_index = 0
    /\ blocked_tasks = {} /\ runnable_tasks = {} /\ tasks_to_run = {}
    /\ total_failed = 0 /\ exit_code = -1
    /\ results = EmptyDict /\ results_keys = <<>> /\ initial_results = EmptyDict
    /\ now = 1
    /\ wpc = [t \in TaskIds |-> "none"]
    /\ wpath = [t \in TaskIds |-> "none"]
    /\ wsnap = [t \in TaskIds |-> EmptyDict]
    /\ dirty = [t \in TaskIds |-> FALSE]
    /\ spawned = [t \in TaskIds |-> 0]
    /\ has_cycle = NotYet /\ plan = NotYet /\ loaded = EmptyDict /\ load_ok = NotYet
    /\ hash_seed = TaskOrder /\ orders = <<>>

SpecResume == ResumeInit /\ [][Next]_vars

\* ------------------------------------------------------------------------
\* Fair specification: one run over one of a few state files, with the
\* threads of the pool scheduled again and again, every command ending (its
\* output at end of file, then its exit or the timeout), and the coordinator
\* going on whenever it can.
\* ------------------------------------------------------------------------

\* the pipelines of the fair specification: those of the resume specification
FairPipelines == ResumePipelines

\* the state files of the fair specification: none, one that holds b as
\* done, one that holds a as failed and b as done
FairFiles ==
    {NoFile,
     WriteState([id \in {"b"} |-> EntryDone(id)], <<"b">>),
     WriteState(DictAB(EntryFailed("a"), EntryDone("b")), <<"b", "a">>)}

FairInit ==
    /\ tasks \in FairPipelines
    /\ state_file \in FairFiles
    /\ pc = "idle" /\ run_no = MaxRuns - 1
    /\ retries \in {0, MaxRetries} /\ max_workers \in {1, MaxWorkers} /\ resume = FALSE
    /\ execution_levels = <<>> /\ level_index = 0
    /\ blocked_tasks = {} /\ runnable_tasks = {} /\ tasks_to_run = {}
    /\ total_failed = 0 /\ exit_code = -1
    /\ results = EmptyDict /\ results_keys = <<>> /\ initial_results = EmptyDict
    /\ now = 1
    /\ wpc = [t \in TaskIds |-> "none"]
    /\ wpath = [t \in TaskIds |-> "none"]
    /\ wsnap = [t \in TaskIds |-> EmptyDict]
    /\ dirty = [t \in TaskIds |-> FALSE]
    /\ spawned = [t \in TaskIds |-> 0]
    /\ has_cycle = NotYet /\ plan = NotYet /\ loaded = EmptyDict /\ load_ok = NotYet
    /\ hash_seed = TaskOrder /\ orders = <<>>

\* a step of run once it has begun
Coordinator == LevelBegin \/ (\E t \in TaskIds : Submit(t)) \/ LevelEnd \/ RunEnd

Fairness ==
    /\ WF_vars(Coordinator)
    /\ \A t \in TaskIds : WF_vars(TaskStep(t))

\* the run of the fair specification is started with --resume
FairNext == RunBegin(TRUE) \/ Coordinator \/ Worker

SpecFair == FairInit /\ [][FairNext]_vars /\ Fairness

\* ------------------------------------------------------------------------
\* Properties of a run
\* ------------------------------------------------------------------------

\* the ids in the depends_on list of task t of the pipeline
Deps(t) == Range(task_map(tasks)[t].depends_on)

\* task t has a result with status done
IsDone(t) == t \in DOMAIN results /\ results[t].status = SUCCESS

\* task t has a result with status failed
IsFailed(t) == t \in DOMAIN results /\ results[t].status = FAILED

\* the result entry of t is what it was when the run began: absent or equal
EntryUntouched(t) ==
    \/ t \notin DOMAIN results /\ t \notin DOMAIN initial_results
    \/ /\ t \in DOMAIN results /\ t \in DOMAIN initial_results
       /\ results[t] = initial_results[t]

\* the pipeline of the scenarios: a and b first, c after both
ScenarioPipeline == <<Task("a", <<>>), Task("b", <<>>), Task("c", <<"a", "b">>)>>

\* C1: a task has an attempt started, or is among the runnable tasks of the
\* level under way, only if every task of its depends_on has a result with
\* status done; this holds in fresh and in resumed runs.
C1_AttemptOnlyAfterDepsDone ==
    \A t \in TaskIds :
        (spawned[t] > 0 \/ wpc[t] # "none" \/ (pc = "wait" /\ t \in runnable_tasks))
            => \A dep \in Deps(t) : IsDone(dep)

\* C1 witness: in a resumed run, task c of the scenario pipeline has had an
\* attempt started, its dependency b having been run again in this run.
C1_Witness ==
    /\ tasks = ScenarioPipeline /\ run_no = 2 /\ resume
    /\ initial_results # EmptyDict
    /\ spawned["c"] > 0 /\ spawned["b"] > 0

\* C4: with retries = N a run starts the command of a task at most N + 1
\* times, and in a run that began with an empty result map the attempts
\* counter of a task never exceeds N + 1 and is never behind the number of
\* times its command was started.
C4_RetryBound ==
    \A t \in TaskIds :
        /\ spawned[t] <= retries + 1
        /\ (initial_results = EmptyDict /\ t \in DOMAIN results)
              => /\ results[t].attempts <= retries + 1
                 /\ spawned[t] <= results[t].attempts

\* C4 witness: with retries = 1, a task is failed after two attempts in a run
\* that began with an empty result map.
C4_Witness ==
    /\ retries = 1 /\ initial_results = EmptyDict
    /\ \E t \in TaskIds : IsFailed(t) /\ results[t].attempts = 2 /\ spawned[t] = 2

\* C6: if B depends on A and A has status failed, B has had no attempt in the
\* run and no execute_task call, and the result entry of B is what it was when
\* the run began (absent, or the same record), and is not done.
C6_BlockedUntouched ==
    \A B \in TaskIds : \A A \in Deps(B) :
        IsFailed(A) =>
            /\ spawned[B] = 0 /\ wpc[B] = "none"
            /\ EntryUntouched(B)
            /\ ~IsDone(B)

\* C6 witness: the run has ended, the level of B has been gone through with B
\* blocked by a failed A, and B has no result entry.
C6_Witness ==
    /\ pc = "exited" /\ level_index > Len(execution_levels)
    /\ \E B \in TaskIds : \E A \in Deps(B) :
          IsFailed(A) /\ spawned[A] > 0 /\ B \notin DOMAIN results

\* C7 as stated: a run that has ended is reported as successful (exit code 0)
\* if and only if no task has status failed.
C7_SuccessIffNoFailed ==
    pc = "exited" => (exit_code = 0 <=> ~\E t \in TaskIds : IsFailed(t))

\* C7 amended: a run that got past planning (the task set is acyclic) is
\* reported as successful if and only if no task has status failed at its
\* end; a run with a task that was executed and ended failed is reported as
\* failed (exit code 1); a run whose plan raised is reported as failed without
\* any result.
C7_SuccessIffNoFailedWhenPlanned ==
    pc = "exited" =>
        /\ execution_levels # <<>> =>
              (exit_code = 0 <=> ~\E t \in TaskIds : IsFailed(t))
        /\ (\E t \in TaskIds : wpc[t] # "none" /\ IsFailed(t)) => exit_code = 1
        /\ execution_levels = <<>> => exit_code = 1 /\ results = EmptyDict
        /\ exit_code \in {0, 1}

\* C7 witness: a resumed run that loaded results has ended successfully with
\* all three tasks done, one of them run in it; and (second witness) a run has
\* ended with code 1 on a failed task.
C7_Witness ==
    /\ pc = "exited" /\ exit_code = 0 /\ resume
    /\ initial_results # EmptyDict
    /\ \A t \in TaskIds : IsDone(t)
    /\ \E t \in TaskIds : spawned[t] > 0

C7_WitnessFailed ==
    /\ pc = "exited" /\ exit_code = 1
    /\ \E t \in TaskIds : wpc[t] = "returned" /\ IsFailed(t)

\* the state file exists
FileExists == state_file.kind # "absent"

\* C8: the state file is removed only by the step that ends a run whose
\* failure total is zero; a run that has ended with a failed task, or with
\* exit code 1 after a task reached done or failed in it, has a state file.
C8_FileKeptUnlessSuccess ==
    /\ [][(FileExists /\ ~FileExists')
            => (pc = "levels" /\ level_index > Len(execution_levels)
                /\ total_failed = 0 /\ pc' = "exited" /\ exit_code' = 0)]_vars
    /\ [](pc = "exited" =>
            /\ (\E t \in TaskIds : IsFailed(t)) => FileExists
            /\ (exit_code = 1 /\ \E t \in TaskIds : wpc[t] \in {"returned", "raised"})
                  => FileExists)

\* C8 witness: a run has ended with code 1, a task has failed in it, and the
\* state file holds that task as failed.
C8_Witness ==
    /\ pc = "exited" /\ exit_code = 1
    /\ state_file.kind = "json"
    /\ \E t \in DOMAIN state_file.state :
          spawned[t] > 0 /\ state_file.state[t].status = "failed"

\* C8 witness, removal: a second run has ended with code 0 and the state file
\* that the first run left is gone.
C8_WitnessRemoved ==
    /\ pc = "exited" /\ exit_code = 0 /\ run_no = 2
    /\ initial_results # EmptyDict /\ ~FileExists

\* C9: the resume scenario.  The first run of a, b and c (c after a and b)
\* with retries = 0 left a done and b failed in the state file; the second
\* run, with resume and retries = 0, in which no attempt fails, has ended: a
\* had no attempt, b and c had one each, all three are done, the run is
\* reported as successful and the state file is removed.
C9_ResumeScenario ==
    (/\ tasks = ScenarioPipeline /\ retries = 0
     /\ run_no = 2 /\ resume /\ pc = "exited"
     /\ DOMAIN initial_results = {"a", "b"}
     /\ initial_results["a"].status = SUCCESS
     /\ initial_results["b"].status = FAILED
     /\ \A t \in DOMAIN results : results[t].error = "")
        => /\ spawned = [t \in TaskIds |-> IF t = "a" THEN 0 ELSE 1]
           /\ \A t \in TaskIds : IsDone(t)
           /\ exit_code = 0
           /\ ~FileExists

\* ------------------------------------------------------------------------
\* State store specification: save_state on an executor with any result map,
\* then load_state on a new executor (load_state also without a file).
\*   pc: "store" -> "saved" -> "loaded", or "store" -> "loaded"
\* ------------------------------------------------------------------------

\* the values start_time and end_time take: None or a number
Times == {None} \cup {Time(x) : x \in 1..MaxTime}

\* the results a task can have: any status, attempts and times
StoredResults(id) ==
    [task_id : {id}, status : Members, start_time : Times, end_time : Times,
     attempts : 0..MaxAttempts, error : {""}]

\* the tasks that have results in the state store specification
StoreIds == {"a", "b"}

StoreInit ==
    /\ \E keys \in SUBSET StoreIds :
          \E res \in [keys -> UNION {StoredResults(id) : id \in StoreIds}] :
              /\ \A id \in keys : res[id].task_id = id
              /\ results = res
              /\ results_keys \in KeyOrders(keys)
    /\ pc = "store"
    /\ state_file = NoFile
    /\ loaded = EmptyDict /\ load_ok = NotYet
    /\ tasks = <<>> /\ retries = 0 /\ max_workers = 1 /\ resume = FALSE /\ run_no = 0
    /\ execution_levels = <<>> /\ level_index = 0
    /\ blocked_tasks = {} /\ runnable_tasks = {} /\ tasks_to_run = {}
    /\ total_failed = 0 /\ exit_code = -1 /\ now = 0
    /\ wpc = <<>> /\ wpath = <<>> /\ wsnap = <<>> /\ dirty = <<>> /\ spawned = <<>>
    /\ has_cycle = NotYet /\ plan = NotYet /\ initial_results = EmptyDict
    /\ hash_seed = TaskOrder /\ orders = <<>>

storeOther == <<tasks, retries, max_workers, resume, run_no, execution_levels,
                level_index, blocked_tasks, runnable_tasks, tasks_to_run,
                total_failed, exit_code, results, results_keys, now, wpc, wpath, wsnap,
                dirty,
                spawned, has_cycle, plan, hash_seed, orders, initial_results>>

\* executor.save_state()
SaveStateCall ==
    /\ pc = "store"
    /\ state_file' = WriteState(BuildState(results), results_keys)
    /\ pc' = "saved"
    /\ UNCHANGED <<loaded, load_ok, storeOther>>

\* TaskExecutor(logger).load_state()
LoadStateCall ==
    /\ pc \in {"store", "saved"}
    /\ LET r == load_state(state_file, EmptyDict, <<>>)
       IN  loaded' = r.results /\ load_ok' = <<r.ok>>
    /\ pc' = "loaded"
    /\ UNCHANGED <<state_file, storeOther>>

StoreNext == SaveStateCall \/ LoadStateCall

SpecStore == StoreInit /\ [][StoreNext]_vars

\* C10: save_state followed by load_state into an empty executor gives a
\* result map with the same task ids and, for each id, the same status,
\* attempts, start_time and end_time; load_state returns True.
C10_RoundTrip ==
    (pc = "loaded" /\ FileExists) =>
        /\ load_ok = <<TRUE>>
        /\ DOMAIN loaded = DOMAIN results
        /\ \A id \in DOMAIN results :
              /\ loaded[id].status = results[id].status
              /\ loaded[id].attempts = results[id].attempts
              /\ loaded[id].start_time = results[id].start_time
              /\ loaded[id].end_time = results[id].end_time

\* C10 witness: a map of two results, one retrying with a start time and no
\* end time, one failed with both, has been saved and loaded.
C10_Witness ==
    /\ pc = "loaded" /\ FileExists
    /\ DOMAIN results = {"a", "b"} /\ DOMAIN loaded = {"a", "b"}
    /\ results["a"].status = RETRYING /\ results["a"].attempts = 2
    /\ results["a"].start_time # None /\ results["a"].end_time = None
    /\ results["b"].status = FAILED /\ results["b"].end_time # None
    /\ state_file.state["a"].status = "retrying"

\* ------------------------------------------------------------------------
\* Executor specification: execute_task and execute_level called on an
\* executor whose result map holds any mix of absent, pending, interrupted,
\* done and failed results (pc = "api").  The clock ticks at every call.
\* ------------------------------------------------------------------------

\* the tasks of the executor specification
ExecIds == {"a", "b"}

\* no call of the executor is under way: every task of tasks_to_run has been
\* submitted and its execute_task call is over
NoCall == \A t \in tasks_to_run : wpc[t] \in {"returned", "raised"}

ExecInit ==
    /\ \E keys \in SUBSET ExecIds :
          \E res \in [keys -> UNION {ExecResults(id) : id \in ExecIds}] :
              /\ \A id \in keys : res[id].task_id = id
              /\ results = res
              /\ results_keys \in KeyOrders(keys)
    /\ pc = "api"
    /\ tasks = <<Task("a", <<>>), Task("b", <<>>)>>
    /\ retries \in {0, MaxRetries} /\ max_workers \in {1, MaxWorkers}
    /\ resume = FALSE /\ run_no = 0
    /\ execution_levels = <<>> /\ level_index = 0
    /\ blocked_tasks = {} /\ runnable_tasks = {} /\ tasks_to_run = {}
    /\ total_failed = 0 /\ exit_code = -1
    /\ initial_results = EmptyDict
    /\ state_file = NoFile /\ now = 1
    /\ wpc = [t \in TaskIds |-> "none"]
    /\ wpath = [t \in TaskIds |-> "none"]
    /\ wsnap = [t \in TaskIds |-> EmptyDict]
    /\ dirty = [t \in TaskIds |-> FALSE]
    /\ spawned = [t \in TaskIds |-> 0]
    /\ has_cycle = NotYet /\ plan = NotYet /\ loaded = EmptyDict /\ load_ok = NotYet
    /\ hash_seed = TaskOrder /\ orders = <<>>

execOther == <<tasks, retries, max_workers, resume, pc, run_no, execution_levels,
               level_index, blocked_tasks, total_failed, exit_code, results,
               results_keys, state_file, has_cycle, plan, loaded, load_ok, hash_seed, orders>>

\* executor.execute_task(task), called directly
ExecuteTaskCall(t) ==
    /\ pc = "api" /\ NoCall /\ now <= MaxCalls
    /\ now' = now + 1
    /\ initial_results' = results
    /\ runnable_tasks' = {t}
    /\ tasks_to_run' = {t}
    /\ wpc' = [u \in TaskIds |-> IF u = t THEN "queued" ELSE "none"]
    /\ wpath' = [u \in TaskIds |-> "none"]
    /\ wsnap' = [u \in TaskIds |-> EmptyDict]
    /\ dirty' = [u \in TaskIds |-> FALSE]
    /\ spawned' = [u \in TaskIds |-> 0]
    /\ UNCHANGED execOther

\* executor.execute_level(tasks) up to the pool: the tasks that need a run
\* are to be submitted; with none of them the stored results are returned at
\* once.
ExecuteLevelCall(level) ==
    /\ pc = "api" /\ NoCall /\ now <= MaxCalls
    /\ now' = now + 1
    /\ initial_results' = results
    /\ runnable_tasks' = level
    /\ tasks_to_run' = {t \in level : NeedsRun(results, t)}
    /\ wpc' = [u \in TaskIds |-> "none"]
    /\ wpath' = [u \in TaskIds |-> "none"]
    /\ wsnap' = [u \in TaskIds |-> EmptyDict]
    /\ dirty' = [u \in TaskIds |-> FALSE]
    /\ spawned' = [u \in TaskIds |-> 0]
    /\ UNCHANGED execOther

ExecNext ==
    \/ \E t \in ExecIds : ExecuteTaskCall(t)
    \/ \E level \in SUBSET ExecIds \ {{}} : ExecuteLevelCall(level)
    \/ \E t \in ExecIds : Submit(t)
    \/ Worker

SpecExecutor == ExecInit /\ [][ExecNext]_vars

\* C5: a task whose result was done when the execute_task or execute_level
\* call began has no child process started by the call, and its result
\* (status, attempts, start_time, end_time) is what it was.
C5_DoneNotRerun ==
    \A t \in DOMAIN initial_results :
        initial_results[t].status = SUCCESS =>
            /\ spawned[t] = 0
            /\ wpc[t] \in {"none", "queued", "returned"}
            /\ results[t] = initial_results[t]

\* C5 witness: execute_task, called on a task that an earlier call made done,
\* has returned.
C5_Witness ==
    /\ now = 3 /\ tasks_to_run = {"a"} /\ wpc["a"] = "returned"
    /\ "a" \in DOMAIN initial_results
    /\ initial_results["a"].status = SUCCESS
    /\ initial_results["a"].start_time = Reading(2, initial_results["a"].attempts)

\* C5 witness, execute_level: a level of a done task and a task that needs a
\* run has been executed; the done task was not submitted.
C5_WitnessLevel ==
    /\ runnable_tasks = {"a", "b"} /\ tasks_to_run = {"b"} /\ wpc["b"] = "returned"
    /\ "a" \in DOMAIN initial_results
    /\ initial_results["a"].status = SUCCESS /\ wpc["a"] = "none"

\* ------------------------------------------------------------------------
\* Scheduler specification: detect_cycles and get_execution_order applied to
\* every task list the parser can hand over (unique ids, every depends_on
\* entry an id of the list; self references and repeated entries included).
\* ------------------------------------------------------------------------

\* the first n tasks of the file, with the depends_on lists deps
TaskList(n, deps) == [i \in 1..n |-> Task(TaskOrder[i], deps[i])]

\* the depends_on lists the first n tasks can have: over their own ids
DepLists(n) == SeqUpTo({TaskOrder[j] : j \in 1..n}, MaxDepLen)

SchedInit ==
    /\ \E n \in 0..Len(TaskOrder) :
          \E deps \in [1..n -> DepLists(n)] : tasks = TaskList(n, deps)
    /\ pc = "sched"
    /\ has_cycle = NotYet
    /\ plan = NotYet
    /\ retries = 0 /\ max_workers = 1 /\ resume = FALSE /\ run_no = 0
    /\ execution_levels = <<>> /\ level_index = 0
    /\ blocked_tasks = {} /\ runnable_tasks = {} /\ tasks_to_run = {}
    /\ total_failed = 0 /\ exit_code = -1
    /\ results = <<>> /\ results_keys = <<>> /\ state_file = NoFile /\ now = 0
    /\ wpc = <<>> /\ wpath = <<>> /\ wsnap = <<>> /\ dirty = <<>> /\ spawned = <<>>
    /\ loaded = <<>> /\ load_ok = NotYet /\ initial_results = <<>>
    /\ hash_seed = TaskOrder /\ orders = <<>>

schedOther == <<tasks, retries, max_workers, resume, pc, run_no, execution_levels,
                level_index, blocked_tasks, runnable_tasks, tasks_to_run,
                total_failed, exit_code, results, results_keys, state_file, now, wpc,
                wpath,
                wsnap, dirty, spawned, loaded, load_ok, hash_seed, orders, initial_results>>

\* a call of scheduler.detect_cycles(tasks)
DetectCyclesCall ==
    /\ pc = "sched" /\ has_cycle = NotYet
    /\ has_cycle' = <<detect_cycles(tasks)>>
    /\ UNCHANGED <<plan, schedOther>>

\* a call of scheduler.get_execution_order(tasks)
GetExecutionOrderCall ==
    /\ pc = "sched" /\ plan = NotYet
    /\ plan' = <<get_execution_order(tasks)>>
    /\ UNCHANGED <<has_cycle, schedOther>>

SchedNext == DetectCyclesCall \/ GetExecutionOrderCall

SpecSched == SchedInit /\ [][SchedNext]_vars

\* ------------------------------------------------------------------------
\* Properties of the scheduler
\* ------------------------------------------------------------------------

\* the pairs <<t, d>> with d an entry of the depends_on list of t
DependsOn(ts) == UNION {{<<ts[i].id, d>> : d \in Range(ts[i].depends_on)} : i \in DOMAIN ts}

\* the transitive closure of a relation
RECURSIVE TransitiveClosure(_)
TransitiveClosure(R) ==
    LET step == R \cup {<<pq[1][1], pq[2][2]>> :
                           pq \in {x \in R \X R : x[1][2] = x[2][1]}}
    IN  IF step = R THEN R ELSE TransitiveClosure(step)

\* a task reaches itself along depends_on entries
Cyclic(ts) == \E t \in Ids(ts) : <<t, t>> \in TransitiveClosure(DependsOn(ts))

\* the number of the level that holds task id t (0: none)
LevelOf(levels, t) ==
    IF \E k \in DOMAIN levels : t \in levels[k]
    THEN CHOOSE k \in DOMAIN levels : t \in levels[k]
    ELSE 0

\* C2: for an acyclic task list (unique ids, every dependency an id of the
\* list) get_execution_order returns levels; every task id is in exactly one
\* level, and every dependency of a task is in a strictly earlier level.
C2_LevelsPartitionAndOrder ==
    (plan # NotYet /\ ~Cyclic(tasks)) =>
        LET levels == plan[1].levels IN
        /\ plan[1].error = "none"
        /\ \A t \in Ids(tasks) :
              Cardinality({k \in DOMAIN levels : t \in levels[k]}) = 1
        /\ \A k \in DOMAIN levels : levels[k] \subseteq Ids(tasks)
        /\ \A pq \in DependsOn(tasks) :
              LevelOf(levels, pq[2]) < LevelOf(levels, pq[1])

\* C2 witness: a plan of three levels for an acyclic list in which a task
\* names the same dependency twice.
C2_Witness ==
    /\ plan # NotYet /\ ~Cyclic(tasks)
    /\ Len(plan[1].levels) = 3
    /\ \E i \in DOMAIN tasks : Len(tasks[i].depends_on) = 2
                                /\ tasks[i].depends_on[1] = tasks[i].depends_on[2]

\* C3: for a task list with a dependency cycle (a task depending on itself
\* included) detect_cycles returns true, and get_execution_order raises an
\* error and returns no levels.
C3_CycleRejected ==
    Cyclic(tasks) =>
        /\ has_cycle # NotYet => has_cycle[1] = TRUE
        /\ plan # NotYet => plan[1].error # "none" /\ plan[1].levels = <<>>

\* C3 witness: both functions have been called on a list in which a task
\* depends on itself and on nothing else.
C3_Witness ==
    /\ has_cycle # NotYet /\ plan # NotYet /\ Cyclic(tasks)
    /\ \E i \in DOMAIN tasks : tasks[i].depends_on = <<tasks[i].id>>

\* C3 witness, second case: a cycle through all three tasks, no self reference
C3_WitnessLong ==
    /\ has_cycle # NotYet /\ plan # NotYet /\ Cyclic(tasks)
    /\ Len(tasks) = 3
    /\ \A i \in DOMAIN tasks : Len(tasks[i].depends_on) = 1
                                /\ tasks[i].depends_on[1] # tasks[i].id
    /\ Cardinality({tasks[i].depends_on[1] : i \in DOMAIN tasks}) = 3

\* ------------------------------------------------------------------------
\* Properties of one run over a state file left behind
\* ------------------------------------------------------------------------

\* C11: when load_state has returned False in a run with --resume (the state
\* file absent, malformed, or with an entry of unknown status or without a
\* field), the result map the run begins with is empty, as with no prior
\* state, and the run goes on into the loop over the levels.
C11_FailedLoadLeavesMapEmpty ==
    (resume /\ load_ok = <<FALSE>>) =>
        /\ initial_results = EmptyDict
        /\ execution_levels # <<>>

\* the tasks whose execute_task call of this run has returned a failed result
ExecutedFailed == {t \in TaskIds : wpc[t] = "returned" /\ IsFailed(t)}

\* the loop over the levels is between two levels, or was left at its end
BetweenLevels ==
    pc = "levels" \/ (pc = "exited" /\ level_index > Len(execution_levels))

\* C12, first part: the failure total of a run is the number of executed
\* tasks that ended failed; a blocked task adds nothing to it.
C12_TotalCountsExecutedFailed ==
    BetweenLevels => total_failed = Cardinality(ExecutedFailed)

\* C12: the first part, and the scenario: a fresh run with retries = 0 of a
\* (exit 0), b (exit 1) and c after a and b has ended: the plan was {a, b}
\* then {c}, a is done, b is failed with attempts = 1, c was never run and
\* has no result, and the failure total is 1.
C12_BlockedNotCounted ==
    /\ C12_TotalCountsExecutedFailed
    /\ (/\ tasks = ScenarioPipeline /\ retries = 0 /\ run_no = 1 /\ pc = "exited"
        /\ "b" \in DOMAIN results /\ results["b"].error = "exit 1"
        /\ "a" \in DOMAIN results /\ results["a"].error # FailureOf("a"))
          => /\ execution_levels = <<{"a", "b"}, {"c"}>>
             /\ IsDone("a")
             /\ IsFailed("b") /\ results["b"].attempts = 1
             /\ spawned["c"] = 0 /\ "c" \notin DOMAIN results
             /\ total_failed = 1

\* the tasks with an execute_task call in a thread of the pool, and those
\* with a child process running
InFlight == {t \in TaskIds : wpc[t] \in InCall}

ChildRunning == {t \in TaskIds : wpc[t] = "child"}

\* C13: during execute_level the number of tasks in flight is at most
\* min(max_workers, number of tasks of the level that need execution), and
\* so at most max_workers; outside execute_level no task is in flight.
C13_InFlightBound ==
    /\ Cardinality(InFlight) <= max_workers
    /\ Cardinality(InFlight) <= Cardinality(tasks_to_run)
    /\ ChildRunning \subseteq InFlight
    /\ InFlight \subseteq tasks_to_run
    /\ pc # "wait" => InFlight = {}

\* C13 witness: with max_workers = 1 and two tasks to run, the child of one
\* is running while the other waits for the thread.
C13_Witness ==
    /\ pc = "wait" /\ max_workers = 1 /\ Cardinality(tasks_to_run) = 2
    /\ Cardinality(ChildRunning) = 1
    /\ \E t \in tasks_to_run : wpc[t] = "queued"

\* C13 witness, the bound reached: two children run at once
C13_WitnessFull ==
    /\ pc = "wait" /\ max_workers = MaxWorkers /\ Cardinality(ChildRunning) = 2

\* task t is in the level the loop of run is at
InCurrentLevel(t) ==
    /\ level_index \in DOMAIN execution_levels
    /\ t \in execution_levels[level_index]

\* a runnable task of the level under way is not over: its call is still to
\* be submitted, queued or in a thread, or its status is running or retrying
LevelUnfinished ==
    \E t \in runnable_tasks :
        \/ t \in tasks_to_run /\ wpc[t] = "none"
        \/ wpc[t] \in InCall \cup {"queued"}
        \/ (t \in DOMAIN results /\ results[t].status \in {RUNNING, RETRYING})

\* C14: level barrier.  A call or an attempt under way belongs to a task of
\* the level the loop is at, so attempts of different levels never overlap;
\* when the coordinator is not waiting for the pool, every task executed in
\* the run has a terminal status; and while a runnable task of the level is
\* not over, the coordinator does not move to the next level nor evaluate
\* its dependencies.
C14_LevelBarrier ==
    /\ [](/\ \A t \in TaskIds :
               wpc[t] \in InCall \cup {"queued"}
                   => pc = "wait" /\ InCurrentLevel(t) /\ t \in runnable_tasks
          /\ pc # "wait" =>
               \A t \in TaskIds : wpc[t] # "none" =>
                   /\ wpc[t] \in {"returned", "raised"}
                   /\ results[t].status \in {SUCCESS, FAILED})
    /\ [][LevelUnfinished =>
            UNCHANGED <<level_index, execution_levels, blocked_tasks,
                        runnable_tasks, tasks_to_run, pc>>]_vars

\* C14 witness: the second level is under way with a child running, after a
\* first level in which two tasks were executed, one of them retried.
C14_Witness ==
    /\ pc = "wait" /\ level_index = 2
    /\ \E t \in execution_levels[2] : wpc[t] = "child"
    /\ \A t \in execution_levels[1] : wpc[t] = "returned"
    /\ Cardinality(execution_levels[1]) = 2
    /\ \E t \in execution_levels[1] : results[t].attempts = 2

\* the dependency graph of the pipeline has a cycle, or the planner raises
Unplannable == Cyclic(tasks) \/ get_execution_order(tasks).error # "none"

\* C15: with a cyclic or unresolvable dependency graph the run ends with
\* exit code 1 before any attempt: no child process, no execute_task call,
\* no result entry; and no step writes or removes the state file, so that a
\* file left by an earlier run stays as it is, with and without --resume.
C15_AbortBeforeExecution ==
    /\ [](\/ /\ pc \in {"idle", "exited"}
              /\ pc = "exited" => exit_code = 1
              /\ results = EmptyDict
              /\ \A t \in TaskIds : spawned[t] = 0 /\ wpc[t] = "none"
          \/ ~Unplannable)
    /\ [][state_file' # state_file => ~Unplannable]_vars

\* C15 witness: a run with --resume on a cyclic pipeline has ended, and the
\* state file an earlier run left, with failed and done entries, is there.
C15_Witness ==
    /\ Cyclic(tasks) /\ pc = "exited" /\ resume /\ exit_code = 1
    /\ state_file.kind = "json" /\ DOMAIN state_file.state = {"a", "b"}
    /\ state_file.state["a"].status = "failed"
    /\ state_file.state["b"].status = "done"

\* an attempt of t has exited with code zero in the execute_task call of
\* this run: wpath[t] is "try" from then on, until the loop is left
ExitedZero(t) == wpath[t] = "try"

\* C16: once an attempt of a task has exited with code zero, the task is
\* done with an empty error, its call is in save_state or has returned (no
\* further attempt), and a call that has returned has left a state file.
C16_ZeroExitIsDone ==
    \A t \in TaskIds :
        /\ ExitedZero(t) =>
              /\ IsDone(t) /\ results[t].error = ""
              /\ wpc[t] \in {"save", "snap", "write", "dump", "returned"}
              /\ wpc[t] = "returned" => FileExists
        /\ (wpath[t] = "final" /\ spawned[t] > 0) => results[t].error # DictChanged

\* the status transitions of the state machine of a task
AllowedTransition(from, to) ==
    \/ from = PENDING /\ to = RUNNING
    \/ from \in {RUNNING, RETRYING} /\ to = RETRYING
    \/ from \in {RUNNING, RETRYING} /\ to \in {SUCCESS, FAILED}

\* C17: within a run, a step that changes the status of a task makes one of
\* the transitions pending to running, running or retrying to retrying,
\* running or retrying to done or failed; so no step leaves done or failed.
C17_TerminalAbsorbing ==
    [][run_no' = run_no =>
          \A t \in DOMAIN results \cap DOMAIN results' :
              results'[t].status # results[t].status
                  => AllowedTransition(results[t].status, results'[t].status)]_vars

\* C18: in a run with --resume, a task that was loaded with a status other
\* than done and whose execute_task call has returned (its dependencies were
\* all done, or it would not have been called) has had its command started
\* at least once in this run.
C18_ResumedTaskReattempted ==
    resume =>
        \A t \in DOMAIN initial_results :
            (/\ initial_results[t].status # SUCCESS
             /\ wpc[t] = "returned"
             /\ \A dep \in Deps(t) : IsDone(dep))
                => spawned[t] >= 1

\* the run began with an empty result map
FreshRun == initial_results = EmptyDict /\ pc \in {"levels", "wait", "exited"}

\* C19: in a run that began with an empty result map, with retries = N, a
\* task is failed only with attempts = N + 1, each of them counted in this
\* run, and its command was started N + 1 times unless Popen refused it; a
\* step sets a task to failed only when its attempts are N + 1; a task that
\* leaves the head of the loop after fewer than N + 1 attempts counts
\* another attempt, and the next step gives it the status retrying; and a
\* step that changes the result of a task changes no other task's result.
C19_FailedOnlyWhenExhausted ==
    /\ [](FreshRun =>
            \A t \in DOMAIN results :
                results[t].status = FAILED =>
                    /\ results[t].attempts = retries + 1
                    /\ spawned[t] <= retries + 1
                    /\ ~CanRefuse(t) => spawned[t] = retries + 1)
    /\ [][(FreshRun /\ run_no' = run_no) =>
            \A t \in DOMAIN results :
                /\ (results'[t].status = FAILED /\ results[t].status # FAILED)
                      => results[t].attempts = retries + 1
                /\ (wpc[t] = "loop" /\ wpc'[t] # "loop"
                                    /\ results[t].attempts \in 1..retries)
                      => /\ wpc'[t] = "counted"
                         /\ results'[t].attempts = results[t].attempts + 1
                /\ (wpc[t] = "counted" /\ wpc'[t] # "counted"
                                       /\ results[t].attempts > 1)
                      => /\ wpc'[t] = "marked"
                         /\ results'[t].status = RETRYING
                /\ results'[t] # results[t]
                      => \A u \in DOMAIN results \ {t} : results'[u] = results[u]]_vars

\* C19 witness: with retries = 1, in a fresh run, a task whose two attempts
\* failed by its command is failed with attempts = 2, and the other task of
\* its level is done after one attempt.
C19_Witness ==
    /\ FreshRun /\ retries = 1 /\ pc = "wait" /\ Cardinality(tasks_to_run) = 2
    /\ \E t \in tasks_to_run : \E u \in tasks_to_run \ {t} :
          /\ IsFailed(t) /\ results[t].attempts = 2 /\ wpc[t] = "returned"
          /\ results[t].error = FailureOf(t)
          /\ IsDone(u) /\ results[u].attempts = 1 /\ wpc[u] = "returned"

\* the state file holds, for every task of the result map, its status and
\* its attempts
FileAgrees ==
    /\ state_file.kind = "json"
    /\ \A id \in DOMAIN results :
          /\ id \in DOMAIN state_file.state
          /\ state_file.state[id].status = StatusValue(results[id].status)
          /\ state_file.state[id].attempts = results[id].attempts

\* C20: when every execute_task call of a level is over, the state file
\* agrees with the result map, under every interleaving of the save_state
\* calls of the threads.
C20_FileAgreesAfterLevel ==
    (pc = "wait" /\ PoolJoined) => FileAgrees

\* ------------------------------------------------------------------------
\* Properties of execute_task and of the threads of a level
\* ------------------------------------------------------------------------

\* C21, the frame: a step changes the state file only as the save of a
\* call whose task is done or failed (or as the removal at the end of a
\* successful run); a call that goes from one attempt to the next changes
\* nothing in the file; a call on a task already done returns without a
\* write and without a change of the result map.
C21_NoOtherWrites ==
    /\ [](\A t \in TaskIds :
            wpc[t] \in {"save", "snap", "write", "dump"}
                => results[t].status \in {SUCCESS, FAILED})
    /\ [][/\ state_file' # state_file =>
                \/ pc = "levels" /\ pc' = "exited"
                \/ \E t \in TaskIds :
                      \/ wpc[t] = "write" /\ wpc'[t] = "dump"
                      \/ wpc[t] = "dump" /\ wpc'[t] = "returned"
          /\ \A t \in TaskIds :
                (wpc[t] = "queued" /\ wpc'[t] = "returned")
                    => state_file' = state_file /\ results' = results]_vars

\* C21: execute_task writes the state file at the terminal transitions of
\* its task and nowhere else: the frame above, and every transition to done
\* or failed gets its write, that is, no call goes back to the loop after
\* its task was set to done, and none ends without the write after its task
\* was set to failed.
C21_WriteAtEveryTerminal ==
    /\ C21_NoOtherWrites
    /\ [](\A t \in TaskIds :
            /\ ExitedZero(t) => wpc[t] \in {"save", "snap", "write", "dump", "returned"}
            /\ wpc[t] # "raised")

\* the execute_task call of task t makes the step: only its position changes
StepOf(t) ==
    /\ wpc'[t] # wpc[t]
    /\ \A u \in TaskIds \ {t} : wpc'[u] = wpc[u]

\* C22: exclusive ownership of the result entries.  Within a run a task is
\* given to execute_level to run, and submitted to execute_task, only if it
\* was not submitted before, and only as a task of the level under way; a
\* result entry is made or changed only
\* by a step of the call of its own task, which changes no other entry; so
\* no two calls write the same entry.
C22_ExclusiveOwnership ==
    [][run_no' = run_no =>
          \A t \in TaskIds :
              /\ (t \in tasks_to_run' /\ tasks_to_run' # tasks_to_run)
                    => wpc[t] = "none"
              /\ (wpc'[t] = "queued" /\ wpc[t] # "queued")
                    => wpc[t] = "none" /\ t \in tasks_to_run' /\ t \in runnable_tasks'
              /\ (t \in DOMAIN results' /\ t \notin DOMAIN results)
                    => StepOf(t) /\ wpc[t] = "queued"
              /\ (t \in DOMAIN results /\ results'[t] # results[t])
                    => /\ StepOf(t)
                       /\ wpc[t] \in InCall
                       /\ \A u \in DOMAIN results \ {t} : results'[u] = results[u]
              /\ t \in DOMAIN results => t \in DOMAIN results']_vars

\* C22 witness: two calls are under way at once, one in its second attempt
\* and one in its first, each with its own entry.
C22_Witness ==
    /\ pc = "wait"
    /\ \E t \in tasks_to_run : \E u \in tasks_to_run \ {t} :
          /\ wpc[t] = "child" /\ results[t].attempts = 2 /\ results[t].status = RETRYING
          /\ wpc[u] = "child" /\ results[u].attempts = 1 /\ results[u].status = RUNNING

\* the execute_task call of t is over
CallOver(t) == wpc[t] \in {"returned", "raised"}

\* C23: no cancellation between siblings.  execute_level is left, by return
\* or by the error of a call, only when every task it submitted has a call
\* that is over and a status done or failed; and every submitted call does
\* get over, whatever happens to the other calls of the level.
C23_NoCancellation ==
    /\ [][(pc = "wait" /\ pc' # "wait") =>
             \A t \in tasks_to_run :
                 CallOver(t) /\ results[t].status \in {SUCCESS, FAILED}]_vars
    /\ (pc = "wait") ~> (pc = "wait" /\ \A t \in tasks_to_run : CallOver(t))

\* C23 witness: a call of the level has raised, and its sibling, still in its
\* first attempt at that time, has gone on to a second attempt and is done.
C23_Witness ==
    /\ pc = "wait"
    /\ \E t \in tasks_to_run : \E u \in tasks_to_run \ {t} :
          /\ wpc[t] = "raised" /\ IsFailed(t)
          /\ wpc[u] = "returned" /\ IsDone(u) /\ results[u].attempts = 2

\* every level of the plan has been gone through
AllLevelsProcessed == level_index > Len(execution_levels)

\* every task whose dependencies are all done was executed in the run, or
\* was done before it
ReadyTasksExecuted ==
    \A t \in TaskIds :
        (\A dep \in Deps(t) : IsDone(dep)) => (wpc[t] # "none" \/ IsDone(t))

\* C24, as far as it holds: a run that has ended without an error of an
\* execute_task call has gone through every level, and has executed every
\* task whose dependencies are all done, whatever failed or was blocked.
C24_ProgressUnlessRaised ==
    (pc = "exited" /\ execution_levels # <<>>
                   /\ \A t \in TaskIds : wpc[t] # "raised")
        => AllLevelsProcessed /\ ReadyTasksExecuted

\* C24: forward progress.  A run with a plan that has ended has gone through
\* every level, and every task whose dependencies are all done was executed
\* in it (or was done before), also when other tasks failed or were blocked.
C24_ForwardProgress ==
    (pc = "exited" /\ execution_levels # <<>>)
        => AllLevelsProcessed /\ ReadyTasksExecuted

\* ------------------------------------------------------------------------
\* Further properties of the scheduler
\* ------------------------------------------------------------------------

\* the largest element of a nonempty set of numbers
MaxOf(S) == CHOOSE x \in S : \A y \in S : y <= x

\* the dependency chains of a task list: sequences of distinct ids in which
\* each id after the first depends on the id before it
Chains(ts) ==
    {c \in SeqUpTo(Ids(ts), Len(ts)) :
        /\ c # <<>>
        /\ \A i \in 1..(Len(c) - 1) : <<c[i + 1], c[i]>> \in DependsOn(ts)
        /\ \A i \in DOMAIN c : \A j \in DOMAIN c : i # j => c[i] # c[j]}

\* the number of tasks on the longest dependency chain (0: no task)
LongestChain(ts) == IF ts = <<>> THEN 0 ELSE MaxOf({Len(c) : c \in Chains(ts)})

\* C25: for an acyclic task list the levels are maximal: a task without
\* dependencies is in level 1, any other task in the level after the highest
\* level of its dependencies; no task depends on a task of its own level;
\* and there are as many levels as tasks on the longest dependency chain.
C25_LevelsMaximal ==
    (plan # NotYet /\ ~Cyclic(tasks)) =>
        LET levels == plan[1].levels IN
        /\ \A i \in DOMAIN tasks :
              LevelOf(levels, tasks[i].id) =
                  IF tasks[i].depends_on = <<>> THEN 1
                  ELSE 1 + MaxOf({LevelOf(levels, d) : d \in Range(tasks[i].depends_on)})
        /\ \A k \in DOMAIN levels : \A t \in levels[k] : \A u \in levels[k] :
              <<t, u>> \notin DependsOn(tasks)
        /\ Len(levels) = LongestChain(tasks)

\* C25 witness: a plan of two levels for three tasks, two of them without
\* dependencies and the third after both.
C25_Witness ==
    /\ plan # NotYet /\ ~Cyclic(tasks) /\ Len(tasks) = 3
    /\ Len(plan[1].levels) = 2
    /\ Cardinality(plan[1].levels[1]) = 2
    /\ \E i \in DOMAIN tasks : Cardinality(Range(tasks[i].depends_on)) = 2

\* C26: for an acyclic task list (unique ids, valid references, an entry
\* named twice in a depends_on list and the empty list included)
\* detect_cycles returns false, get_execution_order ends without its
\* unresolvable-dependencies error, and no in-degree count goes below zero.
C26_AcyclicAccepted ==
    ~Cyclic(tasks) =>
        /\ has_cycle # NotYet => has_cycle[1] = FALSE
        /\ plan # NotYet => plan[1].error = "none"
        /\ \A id \in Ids(tasks) :
              /\ FinalDegrees(tasks).detect[id] >= 0
              /\ FinalDegrees(tasks).order[id] >= 0

\* C26 witness: both functions have been called on an acyclic list in which
\* a task names its one dependency twice.
C26_Witness ==
    /\ has_cycle = <<FALSE>> /\ plan # NotYet /\ ~Cyclic(tasks)
    /\ \E i \in DOMAIN tasks :
          /\ Len(tasks[i].depends_on) = 2
          /\ Cardinality(Range(tasks[i].depends_on)) = 1

\* C26 witness, the empty task list
C26_WitnessEmpty ==
    /\ tasks = <<>> /\ has_cycle = <<FALSE>>
    /\ plan # NotYet /\ plan[1].error = "none" /\ plan[1].levels = <<>>

\* ------------------------------------------------------------------------
\* The plan as the list of lists get_execution_order returns.  remaining_tasks
\* is a Python set of strings: a level lists its ids in the iteration order of
\* that set, which follows the string hashes of the process and so the hash
\* seed the interpreter drew when the process began.  Removing ids leaves
\* the others in place, so every level is listed in the one order of the
\* process.
\* ------------------------------------------------------------------------

\* the orders in which a set of all task ids can iterate
HashSeeds == {s \in [1..Len(TaskOrder) -> TaskIds] : Range(s) = TaskIds}

\* [task_id for task_id in remaining_tasks if ...]: the ids of S in the
\* iteration order seed
RECURSIVE InSeedOrder(_, _)
InSeedOrder(seed, S) ==
    IF seed = <<>> THEN <<>>
    ELSE (IF Head(seed) \in S THEN <<Head(seed)>> ELSE <<>>)
             \o InSeedOrder(Tail(seed), S)

\* TaskScheduler.get_execution_order, each level as the list the code builds
get_execution_order_list(ts, seed) ==
    LET order == get_execution_order(ts)
    IN  [error |-> order.error,
         levels |-> [k \in DOMAIN order.levels |->
                        InSeedOrder(seed, order.levels[k])]]

\* the task lists of the plan order specification
OrderPipelines == RunPipelines \cup ResumePipelines

OrderInit ==
    /\ tasks \in OrderPipelines
    /\ pc = "order" /\ run_no = 0
    /\ hash_seed = TaskOrder /\ orders = <<>>
    /\ has_cycle = NotYet /\ plan = NotYet
    /\ retries = 0 /\ max_workers = 1 /\ resume = FALSE
    /\ execution_levels = <<>> /\ level_index = 0
    /\ blocked_tasks = {} /\ runnable_tasks = {} /\ tasks_to_run = {}
    /\ total_failed = 0 /\ exit_code = -1
    /\ results = <<>> /\ results_keys = <<>> /\ state_file = NoFile /\ now = 0
    /\ wpc = <<>> /\ wpath = <<>> /\ wsnap = <<>> /\ dirty = <<>> /\ spawned = <<>>
    /\ loaded = <<>> /\ load_ok = NotYet /\ initial_results = <<>>

orderOther == <<tasks, retries, max_workers, resume, pc, execution_levels,
                level_index, blocked_tasks, runnable_tasks, tasks_to_run,
                total_failed, exit_code, results, results_keys, state_file, now, wpc,
                wpath,
                wsnap, dirty, spawned, has_cycle, plan, loaded, load_ok,
                initial_results>>

\* a process of the program begins: the interpreter draws its hash seed
ProcessStart ==
    /\ pc = "order" /\ run_no < MaxRuns
    /\ run_no' = run_no + 1
    /\ hash_seed' \in HashSeeds
    /\ UNCHANGED <<orders, orderOther>>

\* a call of scheduler.get_execution_order(tasks) in the current process
OrderedCall ==
    /\ pc = "order" /\ run_no >= 1
    /\ Len(SelectSeq(orders, LAMBDA o : o.process = run_no)) < MaxCalls
    /\ orders' = Append(orders, [process |-> run_no,
                                 result |-> get_execution_order_list(tasks, hash_seed)])
    /\ UNCHANGED <<run_no, hash_seed, orderOther>>

OrderNext == ProcessStart \/ OrderedCall

SpecOrder == OrderInit /\ [][OrderNext]_vars

\* the levels of a returned plan as sets of ids
LevelSets(result) == [k \in DOMAIN result.levels |-> Range(result.levels[k])]

\* C27 (the part that holds): two calls on the same task list return the same
\* error or the same sequence of levels as sets of ids, and two calls within
\* one process return the same lists.
C27_SameLevelsSameProcessOrder ==
    \A i \in DOMAIN orders : \A j \in DOMAIN orders :
        /\ orders[i].result.error = orders[j].result.error
        /\ LevelSets(orders[i].result) = LevelSets(orders[j].result)
        /\ orders[i].process = orders[j].process
              => orders[i].result = orders[j].result

\* C27: two calls of get_execution_order on the same task list return the
\* same levels with the task ids of each level in the same order, whatever
\* the iteration order of the set of remaining tasks.
C27_PlanDeterministic ==
    \A i \in DOMAIN orders : \A j \in DOMAIN orders :
        orders[i].result = orders[j].result

\* ------------------------------------------------------------------------
\* Child processes that do not exit.  execute_task reads process.stdout to
\* its end before it calls process.wait(timeout=3600).  A command that
\* closes its output and goes on running meets the timeout (the outcome
\* "timeout" of AttemptEnd); a command that keeps its output open and never
\* exits keeps the thread in the loop over process.stdout.
\* ------------------------------------------------------------------------

\* the command of t neither exits nor closes its output: for line in
\* process.stdout blocks, and no step of the call follows
ChildHolds(t) ==
    /\ pc \in {"wait", "api"}
    /\ t \in tasks_to_run /\ wpc[t] = "child"
    /\ wpc' = [wpc EXCEPT ![t] = "reading"]
    /\ UNCHANGED <<results, results_keys, state_file, wpath, wsnap, dirty, spawned,
                   coordVars, otherVars>>

ChildNext == FairNext \/ \E t \in TaskIds : ChildHolds(t)

\* the threads and the coordinator go on whenever they can; nothing makes a
\* command end
SpecChild == FairInit /\ [][ChildNext]_vars /\ Fairness

\* C28 (the part that holds): a call with an attempt under way returns or
\* raises, by the exit of its commands or by the timeout, unless it comes to
\* read the output of a command that holds it open.
C28_ReturnsUnlessOutputHeld ==
    \A t \in TaskIds :
        (wpc[t] = "child") ~> (wpc[t] \in {"returned", "raised", "reading"})

\* C28: every attempt ends, also that of a command which never exits and
\* keeps its output open: the call leaves the attempt (next attempt or failed),
\* execute_task returns or raises, and the level completes.
C28_EveryAttemptEnds ==
    \A t \in TaskIds :
        (wpc[t] \in {"child", "reading"}) ~> (wpc[t] \in {"returned", "raised"})

\* the run has ended and reported success
Succeeded == pc = "exited" /\ exit_code = 0

\* C29: when a run has ended with success (failure total zero, exit code 0,
\* state file removed), every task of the pipeline has a result with status
\* done: none is left without result, pending, running, retrying or failed,
\* in a fresh run and in a resumed run alike.
C29_SuccessMeansAllDone ==
    Succeeded =>
        /\ total_failed = 0
        /\ state_file = NoFile
        /\ \A i \in DOMAIN tasks :
              /\ tasks[i].id \in DOMAIN results
              /\ results[tasks[i].id].status = SUCCESS

\* C29 witness: a resumed run that began with a task loaded as failed and a
\* task loaded as done has ended with success.
C29_Witness ==
    /\ Succeeded /\ resume
    /\ \E t \in DOMAIN initial_results : initial_results[t].status = FAILED
    /\ \E t \in DOMAIN initial_results : initial_results[t].status = SUCCESS
    /\ \A i \in DOMAIN tasks : results[tasks[i].id].status = SUCCESS

\* C29 witness, a fresh run: three tasks executed, a retry among them
C29_WitnessFresh ==
    /\ Succeeded /\ ~resume /\ initial_results = EmptyDict
    /\ \A i \in DOMAIN tasks : spawned[tasks[i].id] >= 1
    /\ \E t \in DOMAIN results : results[t].attempts = 2

\* the execute_task call of t is submitted and has neither returned nor
\* raised: its future is not done
CallPending(t) == wpc[t] \in InCall \cup {"queued", "reading", "held"}

\* ------------------------------------------------------------------------
\* Held output specification: every child process exits, but the command may
\* have started a process that goes on with the output of the command open
\* (run: "sleep infinity &").  The shell that Popen started has exited;
\* process.stdout does not come to its end.
\* ------------------------------------------------------------------------

\* the command of t exits and leaves its output open to a process that goes
\* on: for line in process.stdout blocks, process.wait(timeout=3600) is not
\* reached, and no step of the call follows
OutputHeld(t) ==
    /\ pc \in {"wait", "api"}
    /\ t \in tasks_to_run /\ wpc[t] = "child"
    /\ wpc' = [wpc EXCEPT ![t] = "held"]
    /\ UNCHANGED <<results, results_keys, state_file, wpath, wsnap, dirty, spawned,
                   coordVars, otherVars>>

HeldNext == FairNext \/ \E t \in TaskIds : OutputHeld(t)

\* the threads and the coordinator go on whenever they can; every child
\* process exits
SpecHeld == FairInit /\ [][HeldNext]_vars /\ Fairness

\* C30 (the part that holds): a run that has begun reaches its end unless a
\* call comes to read the output that a command which has exited left open.
C30_TerminatesUnlessOutputHeld ==
    (pc \in {"levels", "wait"}) ~>
        (pc = "exited" \/ \E t \in TaskIds : wpc[t] = "held")

\* C30: provided every child process exits, every run that has begun
\* terminates: no call starts more than retries + 1 commands; a level is
\* left, for the next level or the end of the run, only with every submitted
\* call returned or raised; the run does reach its end and stays there, with
\* no call pending and one terminal outcome, exit code 0 with the state file
\* removed or exit code 1; for every pipeline, worker count and retry count.
C30_RunTerminates ==
    /\ [](\A t \in TaskIds : spawned[t] <= retries + 1)
    /\ [](pc = "exited" =>
             /\ \/ exit_code = 0 /\ state_file = NoFile
                \/ exit_code = 1
             /\ \A t \in TaskIds : ~CallPending(t))
    /\ [][/\ pc = "exited" => pc' = "exited"
          /\ (pc = "wait" /\ pc' # "wait") =>
                /\ pc' \in {"levels", "exited"}
                /\ \A t \in TaskIds : ~CallPending(t)]_vars
    /\ (pc \in {"levels", "wait"}) ~> (pc = "exited")

\* C30, a run that terminates: a run with two workers and one retry, in which a task was
\* attempted twice and a task of a later level was blocked, has ended with
\* exit code 1 after its last level.
C30_Witness ==
    /\ pc = "exited" /\ exit_code = 1
    /\ max_workers = 2 /\ retries = 1
    /\ level_index > Len(execution_levels) /\ Len(execution_levels) >= 2
    /\ \E t \in TaskIds : spawned[t] = 2
    /\ \E i \in DOMAIN tasks : tasks[i].id \notin DOMAIN results

\* C30, a run that terminates with the other outcome: exit code 0, the state file found at the
\* start removed
C30_WitnessSuccess ==
    /\ pc = "exited" /\ exit_code = 0 /\ state_file = NoFile
    /\ resume /\ initial_results # EmptyDict
    /\ \E t \in TaskIds : spawned[t] = 2

====
